---- MODULE Spec2Model ----
(***************************************************************************)
(* ShaderTypes.h of SphereAnimation: the structs shared between the Swift  *)
(* host and the Metal shaders.  The header is compiled twice, once by the  *)
(* host compiler (no __METAL_VERSION__) and once by the Metal compiler     *)
(* (__METAL_VERSION__ predefined).  The model preprocesses the header in   *)
(* both translation units, lays every declared struct out under the ABI of *)
(* its compiler, and then lets the host copy struct instances into a       *)
(* shared buffer that the device reads back through its own layout.        *)
(***************************************************************************)
EXTENDS Integers, Sequences, FiniteSets, TLC

VARIABLES
    pc,        \* per translation unit: index of the next header item
    macros,    \* per translation unit: the macros currently defined
    conds,     \* per translation unit: stack of open #if conditions
    decls,     \* per translation unit: sequence of declared structs
    phase,     \* "build" while compiling, "run" afterwards
    hostVal,   \* the instance the host last populated
    buf,       \* the shared buffer: a sequence of bytes
    dev,       \* what the device decoded from the buffer
    lastRead   \* the last colors[i] the device read

vars == <<pc, macros, conds, decls, phase, hostVal, buf, dev, lastRead>>

----------------------------------------------------------------------------
(* Bounds of the model *)

\* how many distinct payloads the host may write
MaxSeed == 2

----------------------------------------------------------------------------
(* The header *)

TUs == {"host", "device"}

\* the macros the compiler of a translation unit predefines
PredefinedMacros(tu) == IF tu = "device" THEN {"__METAL_VERSION__"} ELSE {}

Item(k, n) == [kind |-> k, name |-> n]

\* a plausible slip: VertexOut left outside the Metal-only section
HeaderUngated ==
    << Item("ifndef", "ShaderTypes_h"),
       Item("define", "ShaderTypes_h"),
       Item("include", "simd/simd.h"),
       Item("struct", "VertexIn"),
       Item("struct", "VertexUniforms"),
       Item("struct", "FragmentUniforms"),
       Item("struct", "VertexOut"),
       Item("ifdef", "__METAL_VERSION__"),
       Item("endif", "__METAL_VERSION__"),
       Item("endif", "ShaderTypes_h") >>

\* a plausible slip: the Metal-only section opened one struct too early
HeaderGateEarly ==
    << Item("ifndef", "ShaderTypes_h"),
       Item("define", "ShaderTypes_h"),
       Item("include", "simd/simd.h"),
       Item("struct", "VertexIn"),
       Item("struct", "VertexUniforms"),
       Item("ifdef", "__METAL_VERSION__"),
       Item("struct", "FragmentUniforms"),
       Item("struct", "VertexOut"),
       Item("endif", "__METAL_VERSION__"),
       Item("endif", "ShaderTypes_h") >>

\* the header as the preprocessor sees it, one item per directive or struct
Header ==
    << Item("ifndef", "ShaderTypes_h"),
       Item("define", "ShaderTypes_h"),
       Item("include", "simd/simd.h"),
       Item("struct", "VertexIn"),
       Item("struct", "VertexUniforms"),
       Item("struct", "FragmentUniforms"),
       Item("ifdef", "__METAL_VERSION__"),
       Item("struct", "VertexOut"),
       Item("endif", "__METAL_VERSION__"),
       Item("endif", "ShaderTypes_h") >>

\* a plausible slip: the array declared one entry larger
ColorsCapacityOffByOne == 10 + 1

\* the capacity of FragmentUniforms.colors
ColorsCapacity == 10

Field(n, t, c, a) == [name |-> n, type |-> t, count |-> c, attr |-> a]

VertexInDecl ==
    << Field("position", "simd_float3", 1, ""),
       Field("normal", "simd_float3", 1, "") >>

\* a plausible slip: cameraPosition widened to a 4-vector
VertexUniformsDeclVec4 ==
    << Field("modelMatrix", "simd_float4x4", 1, ""),
       Field("viewProjectionMatrix", "simd_float4x4", 1, ""),
       Field("cameraPosition", "simd_float4", 1, ""),
       Field("spherePosition", "simd_float2", 1, ""),
       Field("sphereScale", "float", 1, "") >>

VertexUniformsDecl ==
    << Field("modelMatrix", "simd_float4x4", 1, ""),
       Field("viewProjectionMatrix", "simd_float4x4", 1, ""),
       Field("cameraPosition", "simd_float3", 1, ""),
       Field("spherePosition", "simd_float2", 1, ""),
       Field("sphereScale", "float", 1, "") >>

\* a plausible slip: time declared ahead of colorCount
FragmentUniformsDeclSwapped ==
    << Field("colors", "simd_float3", ColorsCapacity, ""),
       Field("time", "float", 1, ""),
       Field("colorCount", "int", 1, ""),
       Field("lightPosition", "simd_float3", 1, ""),
       Field("colorCycleDuration", "float", 1, ""),
       Field("glowIntensity", "float", 1, "") >>

FragmentUniformsDecl ==
    << Field("colors", "simd_float3", ColorsCapacity, ""),
       Field("colorCount", "int", 1, ""),
       Field("time", "float", 1, ""),
       Field("lightPosition", "simd_float3", 1, ""),
       Field("colorCycleDuration", "float", 1, ""),
       Field("glowIntensity", "float", 1, "") >>

VertexOutDecl ==
    << Field("position", "simd_float4", 1, "position"),
       Field("worldPosition", "simd_float3", 1, ""),
       Field("worldNormal", "simd_float3", 1, ""),
       Field("viewDirection", "simd_float3", 1, "") >>

\* the field list the header gives a struct name
Fields(s) ==
    CASE s = "VertexIn" -> VertexInDecl
      [] s = "VertexUniforms" -> VertexUniformsDecl
      [] s = "FragmentUniforms" -> FragmentUniformsDecl
      [] s = "VertexOut" -> VertexOutDecl

SharedStructs == {"VertexIn", "VertexUniforms", "FragmentUniforms"}

AllStructs == SharedStructs \cup {"VertexOut"}

----------------------------------------------------------------------------
(* The types of <simd/simd.h> and their layout under the two ABIs *)

\* the number of scalar lanes a type carries
Lanes(t) ==
    CASE t = "simd_float2" -> 2
      [] t = "simd_float3" -> 3
      [] t = "simd_float4" -> 4
      [] t = "simd_float4x4" -> 16
      [] t = "int" -> 1
      [] t = "float" -> 1

\* the scalar a lane holds
LaneKind(t) == IF t = "int" THEN "int" ELSE "float"

\* the width of one lane in bits
LaneBits(t) == 32

LaneBytes(t) == LaneBits(t) \div 8

RECURSIVE Pow2Ceil(_, _)
Pow2Ceil(n, p) == IF p >= n THEN p ELSE Pow2Ceil(n, 2 * p)

\* host: a clang ext_vector_type is padded to a power-of-two lane count;
\* simd_float4x4 is a struct of four simd_float4 columns
HostSizeOf(t) ==
    IF t = "simd_float4x4"
    THEN 4 * (LaneBytes(t) * 4)
    ELSE LaneBytes(t) * Pow2Ceil(Lanes(t), 1)

\* host: a vector is aligned to its size, a matrix to its column
HostAlignOf(t) ==
    IF t = "simd_float4x4" THEN LaneBytes(t) * 4 ELSE HostSizeOf(t)

\* a plausible slip on the device side: float3 taken as packed_float3
MetalSizeOfPacked(t) ==
    CASE t = "simd_float2" -> 8
      [] t = "simd_float3" -> 12
      [] t = "simd_float4" -> 16
      [] t = "simd_float4x4" -> 64
      [] t = "int" -> 4
      [] t = "float" -> 4

\* device: the size table of the Metal Shading Language
\* (simd_floatN is floatN, simd_float4x4 is float4x4)
MetalSizeOf(t) ==
    CASE t = "simd_float2" -> 8
      [] t = "simd_float3" -> 16
      [] t = "simd_float4" -> 16
      [] t = "simd_float4x4" -> 64
      [] t = "int" -> 4
      [] t = "float" -> 4

\* a plausible slip on the device side: float3 aligned like a scalar
MetalAlignOfScalar(t) ==
    CASE t = "simd_float2" -> 8
      [] t = "simd_float3" -> 4
      [] t = "simd_float4" -> 16
      [] t = "simd_float4x4" -> 16
      [] t = "int" -> 4
      [] t = "float" -> 4

\* device: the alignment table of the Metal Shading Language
MetalAlignOf(t) ==
    CASE t = "simd_float2" -> 8
      [] t = "simd_float3" -> 16
      [] t = "simd_float4" -> 16
      [] t = "simd_float4x4" -> 16
      [] t = "int" -> 4
      [] t = "float" -> 4

SizeOf(abi, t) == IF abi = "host" THEN HostSizeOf(t) ELSE MetalSizeOf(t)

AlignOf(abi, t) == IF abi = "host" THEN HostAlignOf(t) ELSE MetalAlignOf(t)

\* a plausible slip: no padding inserted
AlignUpNone(n, a) == n

\* the next multiple of a at or after n
AlignUp(n, a) == ((n + a - 1) \div a) * a

\* a plausible slip: the bytes of an array counted from the payload lanes
FieldSizePayload(abi, f) == f.count * LaneBytes(f.type) * Lanes(f.type)

\* the bytes a field occupies: its elements, each with the stride of its type
FieldSize(abi, f) == f.count * SizeOf(abi, f.type)

\* a plausible slip: array entries indexed with the payload stride
ElemOffsetPacked(abi, f, e) == e * LaneBytes(f.type) * Lanes(f.type)

\* the offset of element e of an array field, relative to the field
ElemOffset(abi, f, e) == e * SizeOf(abi, f.type)

RECURSIVE Offsets(_, _, _, _)
Offsets(abi, fields, i, cur) ==
    IF i > Len(fields) THEN << >>
    ELSE LET o == AlignUp(cur, AlignOf(abi, fields[i].type))
         IN  << o >> \o Offsets(abi, fields, i + 1, o + FieldSize(abi, fields[i]))

RECURSIVE MaxAlign(_, _, _)
MaxAlign(abi, fields, i) ==
    IF i > Len(fields) THEN 1
    ELSE LET a == AlignOf(abi, fields[i].type)
             r == MaxAlign(abi, fields, i + 1)
         IN  IF a > r THEN a ELSE r

\* the C struct layout rule, which both compilers apply
Layout(abi, fields) ==
    LET offs == Offsets(abi, fields, 1, 0)
        n == Len(fields)
        al == MaxAlign(abi, fields, 1)
    IN  [ offsets |-> offs,
          align |-> al,
          size |-> AlignUp(offs[n] + FieldSize(abi, fields[n]), al) ]

----------------------------------------------------------------------------
(* Preprocessing and compiling the header in one translation unit *)

RECURSIVE AllTrue(_, _)
AllTrue(s, i) == IF i > Len(s) THEN TRUE ELSE s[i] /\ AllTrue(s, i + 1)

\* whether the text at the current position is compiled
Active(tu) == AllTrue(conds[tu], 1)

AtEnd(tu) == pc[tu] > Len(Header)

Advance(tu) == pc' = [pc EXCEPT ![tu] = @ + 1]

IfDirective(tu) ==
    /\ phase = "build" /\ ~AtEnd(tu)
    /\ Header[pc[tu]].kind \in {"ifdef", "ifndef"}
    /\ LET it == Header[pc[tu]]
           taken == IF it.kind = "ifdef" THEN it.name \in macros[tu]
                                         ELSE it.name \notin macros[tu]
       IN  conds' = [conds EXCEPT ![tu] = Append(@, taken)]
    /\ Advance(tu)
    /\ UNCHANGED <<macros, decls, phase, hostVal, buf, dev, lastRead>>

EndifDirective(tu) ==
    /\ phase = "build" /\ ~AtEnd(tu)
    /\ Header[pc[tu]].kind = "endif"
    /\ conds' = [conds EXCEPT ![tu] = SubSeq(@, 1, Len(@) - 1)]
    /\ Advance(tu)
    /\ UNCHANGED <<macros, decls, phase, hostVal, buf, dev, lastRead>>

DefineDirective(tu) ==
    /\ phase = "build" /\ ~AtEnd(tu)
    /\ Header[pc[tu]].kind = "define"
    /\ macros' = IF Active(tu)
                 THEN [macros EXCEPT ![tu] = @ \cup {Header[pc[tu]].name}]
                 ELSE macros
    /\ Advance(tu)
    /\ UNCHANGED <<conds, decls, phase, hostVal, buf, dev, lastRead>>

IncludeDirective(tu) ==
    /\ phase = "build" /\ ~AtEnd(tu)
    /\ Header[pc[tu]].kind = "include"
    /\ Advance(tu)
    /\ UNCHANGED <<macros, conds, decls, phase, hostVal, buf, dev, lastRead>>

StructDecl(tu) ==
    /\ phase = "build" /\ ~AtEnd(tu)
    /\ Header[pc[tu]].kind = "struct"
    /\ LET s == Header[pc[tu]].name
           d == [name |-> s, fields |-> Fields(s), layout |-> Layout(tu, Fields(s))]
       IN  decls' = IF Active(tu)
                    THEN [decls EXCEPT ![tu] = Append(@, d)]
                    ELSE decls
    /\ Advance(tu)
    /\ UNCHANGED <<macros, conds, phase, hostVal, buf, dev, lastRead>>

\* another file of the translation unit includes the header again
IncludeAgain(tu) ==
    /\ phase = "build" /\ AtEnd(tu)
    /\ pc' = [pc EXCEPT ![tu] = 1]
    /\ UNCHANGED <<macros, conds, decls, phase, hostVal, buf, dev, lastRead>>

Declared(tu) == {decls[tu][i].name : i \in 1..Len(decls[tu])}

DeclOf(tu, s) ==
    decls[tu][CHOOSE i \in 1..Len(decls[tu]) : decls[tu][i].name = s]

NoVal == [kind |-> "none", vals |-> << >>]

NoDev == [read |-> FALSE, vals |-> << >>]

NoRead == [idx |-> -1, val |-> << >>]

Init ==
    /\ pc = [tu \in TUs |-> 1]
    /\ macros = [tu \in TUs |-> PredefinedMacros(tu)]
    /\ conds = [tu \in TUs |-> << >>]
    /\ decls = [tu \in TUs |-> << >>]
    /\ phase = "build"
    /\ hostVal = NoVal
    /\ buf = << >>
    /\ dev = NoDev
    /\ lastRead = NoRead

\* both translation units are compiled: the program runs
Link ==
    /\ phase = "build"
    /\ \A tu \in TUs : AtEnd(tu)
    /\ phase' = "run"
    /\ UNCHANGED <<pc, macros, conds, decls, hostVal, buf, dev, lastRead>>

----------------------------------------------------------------------------
(* Struct instances and their bytes *)

Seeds == 0..(MaxSeed - 1)

\* what an uninitialised byte (padding, an unused array entry) may hold
PadBytes == {0, 170}

\* the bit pattern of float lane k of the instance with this seed
LanePattern(seed, k) == << 255 - k, k, 165, seed + 1 >>

\* the bytes of a 32-bit two's complement int, least significant first
EncodeInt(v) ==
    LET u == IF v >= 0 THEN v ELSE (v + 2147483647) + 1
    IN  << u % 256, (u \div 256) % 256, (u \div 65536) % 256,
           ((u \div 16777216) % 128) + (IF v < 0 THEN 128 ELSE 0) >>

DecodeInt(b) ==
    LET low == b[1] + 256 * b[2] + 65536 * b[3] + 16777216 * (b[4] % 128)
    IN  IF b[4] >= 128 THEN (low - 2147483647) - 1 ELSE low

\* a scalar as the bytes memory holds, and back
ScalarBytes(kind, v) == IF kind = "int" THEN EncodeInt(v) ELSE v

ScalarOf(kind, b) == IF kind = "int" THEN DecodeInt(b) ELSE b

\* how many elements of a field carry values: of colors, the first n
ValidCount(f, n) == IF f.name = "colors" THEN n ELSE f.count

\* the scalars of field i of the instance (seed, n) of a struct
FieldValue(f, i, seed, n) ==
    IF LaneKind(f.type) = "int" THEN << n >>
    ELSE [j \in 1..(ValidCount(f, n) * Lanes(f.type)) |-> LanePattern(seed, 32 * i + j)]

Instance(s, seed, n) ==
    [ kind |-> s,
      vals |-> [i \in 1..Len(Fields(s)) |-> FieldValue(Fields(s)[i], i, seed, n)] ]

\* the bytes of one field in memory: each element's lanes, then its padding
FieldBytes(abi, f, vals, pad) ==
    LET sz == SizeOf(abi, f.type)
        lb == LaneBytes(f.type)
    IN  [b \in 1..FieldSize(abi, f) |->
            LET e == (b - 1) \div sz
                r == (b - 1) % sz
                l == r \div lb
                idx == e * Lanes(f.type) + l + 1
            IN  IF l < Lanes(f.type) /\ idx <= Len(vals)
                THEN ScalarBytes(LaneKind(f.type), vals[idx])[(r % lb) + 1]
                ELSE pad]

PadTo(acc, upto, pad) == acc \o [k \in 1..(upto - Len(acc)) |-> pad]

RECURSIVE EncodeFields(_, _, _, _, _, _, _)
EncodeFields(abi, fields, lay, vals, pad, i, acc) ==
    IF i > Len(fields) THEN PadTo(acc, lay.size, pad)
    ELSE EncodeFields(abi, fields, lay, vals, pad, i + 1,
             PadTo(acc, lay.offsets[i], pad)
                 \o FieldBytes(abi, fields[i], vals[i], pad))

\* the memory image of an instance under a layout
Encode(abi, d, vals, pad) == EncodeFields(abi, d.fields, d.layout, vals, pad, 1, << >>)

\* byte at offset o of the buffer; a read past its end yields anything
ByteAt(b, o, oob) == IF o < Len(b) THEN b[o + 1] ELSE oob

\* the scalar of lane l of element e of a field, read at the field's offset
ReadLane(abi, f, off, e, l, b, oob) ==
    LET at == off + ElemOffset(abi, f, e) + l * LaneBytes(f.type)
    IN  ScalarOf(LaneKind(f.type),
                 [k \in 1..LaneBytes(f.type) |-> ByteAt(b, at + k - 1, oob)])

ReadElem(abi, f, off, e, b, oob) ==
    [j \in 1..Lanes(f.type) |-> ReadLane(abi, f, off, e, j - 1, b, oob)]

\* every field that is not an array, read through the layout of d
Decode(abi, d, b, oob) ==
    [i \in 1..Len(d.fields) |->
        IF d.fields[i].count > 1 THEN << >>
        ELSE ReadElem(abi, d.fields[i], d.layout.offsets[i], 0, b, oob)]

FieldIndex(fields, n) == CHOOSE i \in 1..Len(fields) : fields[i].name = n

----------------------------------------------------------------------------
(* The host populates, the device reads *)

CountsOf(s) == IF s = "FragmentUniforms" THEN 0..ColorsCapacity ELSE {0}

\* the host fills an instance and copies its bytes to a fresh shared buffer
HostWrite(s, seed, n, pad) ==
    /\ phase = "run"
    /\ s \in Declared("host")
    /\ hostVal' = Instance(s, seed, n)
    /\ buf' = Encode("host", DeclOf("host", s), Instance(s, seed, n).vals, pad)
    /\ dev' = NoDev
    /\ lastRead' = NoRead
    /\ UNCHANGED <<pc, macros, conds, decls, phase>>

\* the device reads the struct's fields through its own declaration
DeviceRead(oob) ==
    /\ phase = "run"
    /\ hostVal.kind \in Declared("device")
    /\ ~dev.read
    /\ dev' = [read |-> TRUE,
               vals |-> Decode("device", DeclOf("device", hostVal.kind), buf, oob)]
    /\ UNCHANGED <<pc, macros, conds, decls, phase, hostVal, buf, lastRead>>

\* the colorCount the device sees
DevColorCount ==
    dev.vals[FieldIndex(Fields("FragmentUniforms"), "colorCount")][1]

\* the device reads colors[i], one of the entries colorCount declares valid
ReadColor(i, oob) ==
    /\ phase = "run"
    /\ hostVal.kind = "FragmentUniforms"
    /\ dev.read
    /\ i < DevColorCount
    /\ LET d == DeclOf("device", "FragmentUniforms")
           k == FieldIndex(d.fields, "colors")
       IN  lastRead' = [idx |-> i,
                        val |-> ReadElem("device", d.fields[k], d.layout.offsets[k],
                                         i, buf, oob)]
    /\ UNCHANGED <<pc, macros, conds, decls, phase, hostVal, buf, dev>>

Build(tu) ==
    \/ IfDirective(tu)
    \/ EndifDirective(tu)
    \/ DefineDirective(tu)
    \/ IncludeDirective(tu)
    \/ StructDecl(tu)
    \/ IncludeAgain(tu)

Next ==
    \/ \E tu \in TUs : Build(tu)
    \/ Link
    \/ \E s \in SharedStructs, seed \in Seeds, pad \in PadBytes :
           \E n \in CountsOf(s) : HostWrite(s, seed, n, pad)
    \/ \E oob \in PadBytes : DeviceRead(oob)
    \/ \E i \in 0..(ColorsCapacity - 1), oob \in PadBytes : ReadColor(i, oob)

Spec == Init /\ [][Next]_vars

----------------------------------------------------------------------------
(* Properties *)

Built == \A tu \in TUs : AtEnd(tu)

Range(lo, n) == lo..(lo + n - 1)

\* the byte range of field i of a declared struct
FieldRange(abi, d, i) == Range(d.layout.offsets[i], FieldSize(abi, d.fields[i]))

FieldEnd(abi, d, i) == d.layout.offsets[i] + FieldSize(abi, d.fields[i])

ColorsIdx == FieldIndex(Fields("FragmentUniforms"), "colors")

CountIdx == FieldIndex(Fields("FragmentUniforms"), "colorCount")

\* the colorCount of the instance the host populated
HostColorCount == hostVal.vals[CountIdx][1]

\* C1: every shared struct has the same total size and the same offset for
\* every field under the host layout and under the device layout.
C1_LayoutsAgree ==
    \A s \in SharedStructs :
        (s \in Declared("host") /\ s \in Declared("device")) =>
            /\ DeclOf("host", s).layout.size = DeclOf("device", s).layout.size
            /\ DeclOf("host", s).layout.offsets = DeclOf("device", s).layout.offsets

C1_Witness ==
    /\ SharedStructs \subseteq Declared("host")
    /\ SharedStructs \subseteq Declared("device")
    /\ phase = "build"

C3_RoundTrip ==
    /\ dev.read =>
         \A i \in 1..Len(Fields(hostVal.kind)) :
             Fields(hostVal.kind)[i].count = 1 => dev.vals[i] = hostVal.vals[i]
    /\ lastRead.idx >= 0 =>
         /\ lastRead.idx < HostColorCount
         /\ lastRead.val = SubSeq(hostVal.vals[ColorsIdx],
                                  3 * lastRead.idx + 1, 3 * lastRead.idx + 3)

C3_Witness ==
    /\ dev.read
    /\ hostVal.kind = "FragmentUniforms"
    /\ HostColorCount = 3
    /\ lastRead.idx = 2

\* C4: colorCount 0 and colorCount 10 are stored and read back exactly, and
\* with colorCount 10 every entry colors[0..9] lies inside the colors array
\* and shares no byte with any other field.
C4_CountBoundaries ==
    (hostVal.kind = "FragmentUniforms" /\ HostColorCount \in {0, 10}) =>
        LET d == DeclOf("host", "FragmentUniforms")
            f == d.fields[ColorsIdx]
        IN  /\ ReadElem("host", d.fields[CountIdx], d.layout.offsets[CountIdx],
                        0, buf, 0) = << HostColorCount >>
            /\ dev.read => DevColorCount = HostColorCount
            /\ HostColorCount = 10 =>
                 \A e \in 0..9 :
                     LET r == Range(d.layout.offsets[ColorsIdx] + ElemOffset("host", f, e),
                                    SizeOf("host", f.type))
                     IN  /\ r \subseteq FieldRange("host", d, ColorsIdx)
                         /\ r \subseteq 0..(d.layout.size - 1)
                         /\ \A j \in 1..Len(d.fields) :
                                j # ColorsIdx => r \cap FieldRange("host", d, j) = {}

C4_Witness ==
    /\ hostVal.kind = "FragmentUniforms"
    /\ HostColorCount = 10
    /\ dev.read
    /\ lastRead.idx = 9

\* what the data model of the specification says a field is
SpecKind(s, n) ==
    CASE n \in {"modelMatrix", "viewProjectionMatrix"} -> "matrix4x4"
      [] s = "VertexOut" /\ n = "position" -> "vector4"
      [] n = "spherePosition" -> "vector2"
      [] n = "colorCount" -> "count"
      [] n \in {"sphereScale", "time", "colorCycleDuration", "glowIntensity"} -> "scalar"
      [] OTHER -> "vector3"

SpecOrder(s) ==
    CASE s = "VertexIn" -> << "position", "normal" >>
      [] s = "VertexUniforms" ->
             << "modelMatrix", "viewProjectionMatrix", "cameraPosition",
                "spherePosition", "sphereScale" >>
      [] s = "FragmentUniforms" ->
             << "colors", "colorCount", "time", "lightPosition",
                "colorCycleDuration", "glowIntensity" >>
      [] s = "VertexOut" ->
             << "position", "worldPosition", "worldNormal", "viewDirection" >>

\* C6: every declared struct lists its fields in the order of the data model,
\* and the offsets of its fields strictly increase in that order.
C6_FieldOrder ==
    \A tu \in TUs : \A k \in 1..Len(decls[tu]) :
        LET d == decls[tu][k]
        IN  /\ [i \in 1..Len(d.fields) |-> d.fields[i].name] = SpecOrder(d.name)
            /\ \A i \in 1..(Len(d.fields) - 1) :
                   d.layout.offsets[i] < d.layout.offsets[i + 1]

C6_Witness ==
    /\ phase = "run"
    /\ Len(decls["device"]) = 4
    /\ Len(decls["host"]) = 3
    /\ hostVal.kind = "none"

C7_Gated ==
    \A tu \in TUs :
        /\ "VertexOut" \in Declared(tu) => "__METAL_VERSION__" \in macros[tu]
        /\ AtEnd(tu) =>
               ("VertexOut" \in Declared(tu) <=> "__METAL_VERSION__" \in macros[tu])

C7_Fixed ==
    \A tu \in TUs :
        AtEnd(tu) => ("VertexOut" \in Declared(tu))' = ("VertexOut" \in Declared(tu))

\* C7: VertexOut is declared in a translation unit exactly when
\* __METAL_VERSION__ is defined there, so never on the host, and once a
\* translation unit is compiled nothing later changes whether it is declared.
C7_VertexOutGated == [](C7_Gated) /\ [][C7_Fixed]_vars

C7_Witness ==
    /\ Built
    /\ "VertexOut" \in Declared("device")
    /\ "VertexOut" \notin Declared("host")
    /\ hostVal.kind = "VertexIn"

C9_FlagOnlyAddsVertexOut ==
    Built =>
        /\ Declared("host") = SharedStructs
        /\ Declared("device") = SharedStructs \cup {"VertexOut"}
        /\ \A k \in 1..Len(decls["host"]) :
               /\ k <= Len(decls["device"])
               /\ decls["device"][k].name = decls["host"][k].name
               /\ decls["device"][k].fields = decls["host"][k].fields
               /\ decls["device"][k].layout = decls["host"][k].layout

C9_Witness ==
    /\ Built
    /\ phase = "build"
    /\ Len(decls["host"]) = 3

\* the layout the simd rules are said to give
SimdLayout(s) ==
    CASE s = "VertexIn" -> [offsets |-> << 0, 16 >>, size |-> 32, trailing |-> 0]
      [] s = "VertexUniforms" ->
             [offsets |-> << 0, 64, 128, 144, 152 >>, size |-> 160, trailing |-> 4]
      [] s = "FragmentUniforms" ->
             [offsets |-> << 0, 160, 164, 176, 192, 196 >>, size |-> 208, trailing |-> 8]

\* C10: under the simd rules every field of a host struct is aligned, fields
\* do not overlap, and sizes, offsets and padding are the stated numbers.
C10_SimdNumbers ==
    /\ HostSizeOf("simd_float3") = 16 /\ HostAlignOf("simd_float3") = 16
    /\ HostSizeOf("simd_float2") = 8 /\ HostAlignOf("simd_float2") = 8
    /\ HostSizeOf("simd_float4x4") = 64 /\ HostAlignOf("simd_float4x4") = 16
    /\ HostSizeOf("int") = 4 /\ HostAlignOf("int") = 4
    /\ HostSizeOf("float") = 4 /\ HostAlignOf("float") = 4
    /\ \A k \in 1..Len(decls["host"]) :
        LET d == decls["host"][k]
            n == Len(d.fields)
        IN  /\ d.layout.offsets = SimdLayout(d.name).offsets
            /\ d.layout.size = SimdLayout(d.name).size
            /\ d.layout.size - FieldEnd("host", d, n) = SimdLayout(d.name).trailing
            /\ \A i \in 1..n :
                   d.layout.offsets[i] % HostAlignOf(d.fields[i].type) = 0
            /\ \A i \in 1..(n - 1) :
                   FieldEnd("host", d, i) <= d.layout.offsets[i + 1]
            /\ d.name = "FragmentUniforms" =>
                   /\ \A e \in 0..(ColorsCapacity - 1) :
                          d.layout.offsets[ColorsIdx]
                              + ElemOffset("host", d.fields[ColorsIdx], e) = 16 * e
                   /\ d.layout.offsets[4] - FieldEnd("host", d, 3) = 8

C10_Witness ==
    /\ Len(decls["host"]) = 3
    /\ decls["device"] = << >>

====
